---- MODULE Spec2Model ----
(***************************************************************************)
(* Atomik: a reactive atom store.  The repository holds three cooperating  *)
(* pieces of state handling, all modelled here from their source:          *)
(*   - the singleton `store` (class Store of unnamed/part_004) with the    *)
(*     atoms of src/atoms.ts (createAtom / createDerivedAtom);             *)
(*   - the class Store of unnamed/part_005 (get / set / performUpdate /    *)
(*     subscribe / batch), whose atoms are the {key, read, set} objects    *)
(*     that src/atoms.ts creates;                                          *)
(*   - the module-level store object of unnamed/part_005 (createAtom,      *)
(*     createDerivedAtom, useAtom, useBatchUpdates) with the computation   *)
(*     cache of unnamed/part_006.                                          *)
(* All operations are synchronous; one action is one public call.  A batch *)
(* callback is user code: it is modelled by the calls it makes, between    *)
(* the action that enters the batch and the action that leaves it.         *)
(***************************************************************************)
EXTENDS Integers, Sequences, FiniteSets, TLC

\* ---------------------------------------------------------------- bounds
MaxVal == 2
StackLimit == 12
MaxBatchDepth == 2
MaxTicks == 1
MaxCacheTicks == 1
MaxEvictions == 2
ReadShift == 10

\* ------------------------------------------------------ program constants
maxCircularDepth == 100
maxCacheSize == 1000
maxCacheAge == 300000   \* 5 * 60 * 1000 ms

Val == 0..MaxVal
Undef == 0 - 1
NoErr == "none"
ErrCircular == "CircularDependencyError"
ErrInvalidUpdate == "InvalidAtomUpdateError"
ErrNotFound == "AtomNotFoundError"
ErrType == "TypeError"
ErrRange == "RangeError"
ErrUser == "Error"

\* ------------------------------------------------------------------ atoms
\* A = createAtom(0); B = createDerivedAtom({read: get => get(A) * 2});
\* C = createDerivedAtom({read: get => get(B) + 1}); X, Y read each other
\* and S reads itself (plain {key, read} descriptors handed to get).
SourceAtoms == {"A"}
DerivedAtoms == {"B", "C"}
PlainAtoms == {"X", "Y", "S"}
\* W = createDerivedAtom({read: get => get(A) * 2, write: (get, set, v) => set(A, v / 2)});
\* T = createDerivedAtom({read: () => 0, write: () => { throw new Error("Invalid update") }});
\* P = createDerivedAtom({read: get => get(A), write: (get, set, v) => { set(A, v); throw ... }})
\* [R, dispatch] = createReducerAtom(0, (state, action) => state + action), with
\* numbers as actions; R is the derived atom that createReducerAtom creates
WritableDerivedAtoms == {"W", "T", "P", "R"}
\* E = createDerivedAtom({read: get => { if (get(A) === 2) throw ...; return get(A) }});
\* D = createDerivedAtom({read: get => get(A) === 0 ? 0 : get(E)})
DynamicAtoms == {"D", "E"}
\* L = createAtom(0), read by no derived atom
LoneAtoms == {"L"}
\* M = createDerivedAtom({read: get => get(A) + 1});
\* J = createDerivedAtom({read: get => get(B) + get(M)}): with A, B and M a diamond
DiamondAtoms == {"M", "J"}
\* N = createAtom(0);
\* K = createDerivedAtom({read: get => get(A) === 0 ? 0 : get(N)}), which
\* reads N only while A is not 0
BranchSources == {"N"}
BranchAtoms == {"K"}
Keys == SourceAtoms \cup DerivedAtoms \cup PlainAtoms \cup WritableDerivedAtoms
          \cup DynamicAtoms \cup LoneAtoms \cup DiamondAtoms \cup BranchSources
          \cup BranchAtoms
CreatedAtoms == SourceAtoms \cup DerivedAtoms
BaseAtoms == CreatedAtoms \cup PlainAtoms
\* atoms made by createAtom, and atoms made by createDerivedAtom
IsSource(a) == a \in SourceAtoms \cup LoneAtoms \cup BranchSources
IsDerived(a) ==
  a \in DerivedAtoms \cup WritableDerivedAtoms \cup DynamicAtoms \cup DiamondAtoms
        \cup BranchAtoms
\* the atoms the model's callers subscribe to, and the read-only atom they
\* hand to store.set directly
WatchedAtoms == {"A", "B"}
DirectSetAtoms == {"B"}
\* the atoms the model's callers hand to the class Store and to useAtom's setter
StoreAtoms == {"A", "B", "X", "Y", "S"}
StoreSetAtoms == {"A", "B"}
HookSetAtoms == {"A", "B"}

ReadDeps(a) ==
  CASE a = "B" -> <<"A">>
    [] a = "C" -> <<"B">>
    [] a = "M" -> <<"A">>
    [] a = "J" -> <<"B", "M">>
    [] a = "X" -> <<"Y">>
    [] a = "Y" -> <<"X">>
    [] a = "S" -> <<"S">>
    [] OTHER -> <<>>

Compute(a, vals) ==
  CASE a = "B" -> vals[1] * 2
    [] a = "C" -> vals[1] + 1
    [] a = "M" -> vals[1] + 1
    [] a = "J" -> vals[1] + vals[2]
    [] OTHER -> vals[1]

\* the messages of the errors that recipes throw
MsgInvalid == "Invalid update"
MsgRead == "read failed"
MsgFailedToUpdate == "Failed to update atom: "

\* a read recipe, as the step it takes after the values it has read so far:
\* read another atom, return a value, or throw
ReadStep(a, vals) ==
  CASE a = "W" ->
         IF vals = <<>> THEN [k |-> "get", atom |-> "A"]
         ELSE [k |-> "return", v |-> vals[1] * 2]
    [] a = "T" -> [k |-> "return", v |-> 0]
    [] a = "R" -> [k |-> "return", v |-> 0]
    [] a = "P" ->
         IF vals = <<>> THEN [k |-> "get", atom |-> "A"]
         ELSE [k |-> "return", v |-> vals[1]]
    [] a = "E" ->
         IF vals = <<>> THEN [k |-> "get", atom |-> "A"]
         ELSE IF vals[1] = 2 THEN [k |-> "throw", msg |-> MsgRead]
         ELSE [k |-> "return", v |-> vals[1]]
    [] a = "D" ->
         IF vals = <<>> THEN [k |-> "get", atom |-> "A"]
         ELSE IF vals[1] = 0 THEN [k |-> "return", v |-> 0]
         ELSE IF Len(vals) = 1 THEN [k |-> "get", atom |-> "E"]
         ELSE [k |-> "return", v |-> vals[2]]
    [] a = "K" ->
         IF vals = <<>> THEN [k |-> "get", atom |-> "A"]
         ELSE IF vals[1] = 0 THEN [k |-> "return", v |-> 0]
         ELSE IF Len(vals) = 1 THEN [k |-> "get", atom |-> "N"]
         ELSE [k |-> "return", v |-> vals[2]]
    [] OTHER ->
         IF Len(vals) < Len(ReadDeps(a))
         THEN [k |-> "get", atom |-> ReadDeps(a)[Len(vals) + 1]]
         ELSE [k |-> "return", v |-> Compute(a, vals)]

\* a write recipe, as the statements it executes
WriteSteps(a) ==
  CASE a = "W" -> <<[k |-> "set", atom |-> "A", half |-> TRUE]>>
    [] a = "T" -> <<[k |-> "throw", msg |-> MsgInvalid]>>
    [] a = "P" -> <<[k |-> "set", atom |-> "A", half |-> FALSE],
                    [k |-> "throw", msg |-> MsgInvalid]>>
    [] a = "R" -> <<[k |-> "reduce"]>>
    [] OTHER -> <<>>

\* the reducer of the program, within the model's values
reducer(s, action) == (s + action) % (MaxVal + 1)

\* the update argument of set: a value, or the function prev => (prev + 1) % (MaxVal + 1)
Updates == [fn : {FALSE}, v : Val] \cup {[fn |-> TRUE, v |-> 0]}
Resolve(u, prev) == IF u.fn THEN (prev + 1) % (MaxVal + 1) ELSE u.v

\* ------------------------------------------------------------- callbacks
\* Every subscription has its own callback function (useAtom creates one per
\* effect), so a subscription is the pair of its atom and its id.
UiIds == {"cb1", "cb2"}
StoreIds == {"s1", "s2"}
\* the subscriber () => store.batch(() => {}) of a class Store
ReentrantIds == {"rb"}
HookIds == {"h1", "h2"}
UiCb(a, id) == [t |-> "ui", a |-> a, id |-> id]
RcCb(a) == [t |-> "rc", a |-> a, id |-> "rc"]
\* the atoms the programs subscribe to, per kind of callback
UiAtoms == {"A", "B", "W", "R", "E", "L", "J", "K"}
Tokens ==
  (UiAtoms \X UiIds) \cup ({"A", "L", "E"} \X (StoreIds \cup ReentrantIds))
    \cup ({"A"} \X HookIds)

SeqHas(s, x) == \E i \in 1..Len(s) : s[i] = x
SeqAdd(s, x) == IF SeqHas(s, x) THEN s ELSE Append(s, x)
\* a removal that removes nothing
SeqKeep(s, x) == s
SeqDel(s, x) == SelectSeq(s, LAMBDA y : y # x)

VARIABLES
  atoms,        \* store.atoms of the singleton: key -> value, Undef when absent
  subKeys,      \* keys present in store.subscribers of the singleton
  subs,         \* store.subscribers of the singleton: key -> callbacks in insertion order
  accessStack,  \* store.accessStack of the singleton
  visited,      \* per derived atom: the `visited` set of its get closure
  dependencies, \* per derived atom: the `dependencies` set of its get closure
  state,        \* class Store (part_005): key -> entry
  sStack,       \* class Store: accessStack
  isInBatch,    \* class Store: isInBatch
  batchUpdates, \* class Store: batchUpdates, in insertion order
  frames,       \* class Store: the batch calls whose callback is running
  hAtoms,       \* module-level store (part_005): store.atoms
  hSubs,        \* module-level store: store.subscribers, in insertion order
  hBatch,       \* module-level store: store.batchUpdates
  pending,      \* module-level store: store.pendingUpdates, in insertion order
  batchDepth,   \* module-level batchDepth
  cache,        \* computationCache.cache
  cacheOrder,   \* the keys of computationCache.cache, in insertion order
  dependencyGraph, \* computationCache.dependencyGraph
  now,          \* Date.now()
  middleware,   \* the middleware list the store was constructed with
  ran,          \* the interceptors (by position) that ran during the last call
  hooked,       \* the errors handed to onError hooks during the last call, in order
  invalidated,  \* the keys computationCache.invalidate ran for during the last call, in order
  api,          \* which of the three stores the calling program uses
  changed,      \* the atoms whose value a set changed inside the running (or last) batch
  nested,       \* whether a batch was started and left inside the running (or last) batch
  setTo,        \* per atom: the value of the last successful set inside that batch
  began,        \* per atom: the value its store held before the first set of the running batch
  calls,        \* per subscription: invocations during the last call (or the running batch)
  early,        \* per subscription: invocations made while a batch callback was running
  seen,         \* per subscription: the value it was shown at its last invocation
  shown,        \* per subscription: the values it was shown during the last call, in order
  reads,        \* per derived atom: the atoms its read recipe asked for in its last run
  last          \* the last public call and its outcome

vars == <<atoms, subKeys, subs, accessStack, visited, dependencies, state, sStack,
          isInBatch, batchUpdates, frames, hAtoms, hSubs, hBatch, pending,
          batchDepth, cache, cacheOrder, dependencyGraph, now, middleware, ran, hooked,
          invalidated, api, changed, nested, setTo, began, calls, early, seen, shown,
          reads, last>>

\* the state threaded through one call
Cur ==
  [atoms |-> atoms, subKeys |-> subKeys, subs |-> subs, stack |-> accessStack,
   visited |-> visited, deps |-> dependencies, state |-> state, sStack |-> sStack,
   isInBatch |-> isInBatch, batchUpdates |-> batchUpdates, frames |-> frames,
   hAtoms |-> hAtoms, hSubs |-> hSubs, hBatch |-> hBatch, pending |-> pending,
   batchDepth |-> batchDepth, cache |-> cache, order |-> cacheOrder,
   graph |-> dependencyGraph,
   now |-> now, mw |-> middleware, ran |-> ran, hooked |-> hooked, invalidated |-> invalidated,
   api |-> api,
   calls |-> calls, early |-> early, seen |-> seen, shown |-> shown,
   reads |-> reads]

\* the outcome of a call: the state it leaves, the error it throws (if any)
\* with its message as a sequence of texts, and the value it returns
Ok(st, v) == [st |-> st, err |-> NoErr, msg |-> <<>>, val |-> v]
Fail(st, e) == [st |-> st, err |-> e, msg |-> <<e>>, val |-> Undef]
FailMsg(st, e, m) == [st |-> st, err |-> e, msg |-> m, val |-> Undef]

\* the outcome of a call, named r for the statements that follow the call
Bind(r, Rest(_)) == Rest(r)

\* a subscriber callback runs: it is counted, with the value it is shown
Record(st, tok, v, running) ==
  [st EXCEPT !.calls[tok] = @ + 1, !.seen[tok] = v, !.shown[tok] = Append(@, v),
             !.early[tok] = IF running THEN @ + 1 ELSE @]

\* Object.is on the model's values
ObjectIs(x, y) == x = y

\* ------------------------------------- singleton Store (unnamed/part_004)
\* The interceptors of the model's middleware lists, written for the
\* interface of src/middleware.ts:
\*   "pass"   is {onWrite: (atom, value, next) => { next(value) }}
\*   "block"  is {onWrite: (atom, value, next) => {}}
\*   "reject" is createValidator(v => v === MaxVal ? "rejected" : true)
\*   "add"    is {onRead: (atom, value) => value + ReadShift}
\*   "twice"  is {onRead: (atom, value) => value * 2}
\*   "watch"  is {onError: (error) => { the error is noted }}
\*   "faulty" is {onError: (error) => { throw new Error(...) }}
HasOnWrite(m) == m \in {"pass", "block", "reject"}
HasOnError(m) == m \in {"watch", "faulty"}
MsgRejected == "rejected"

\* m.onRead of an interceptor, and the value as it is where there is none
onRead(m, v) ==
  CASE m = "add" -> v + ReadShift
    [] m = "twice" -> v * 2
    [] OTHER -> v

\* the validate function of "reject" does not return true
Rejected(v) == v = MaxVal

\* The program constructs the store it uses with its middleware list; the
\* singleton that the atoms of src/atoms.ts import (store.instance) has that
\* list when it is the store the program uses, and none otherwise.
SingletonMw(st) == IF st.api = "singleton" THEN st.mw ELSE <<>>

RECURSIVE ReadThrough(_, _, _, _)
\* value = m.onRead(atom, value) for every m of the list that has an onRead
ReadThrough(a, v, mw, i) ==
  IF i > Len(mw) THEN v ELSE ReadThrough(a, onRead(mw[i], v), mw, i + 1)

\* this.middleware.reduce((acc, m) => m.onRead ? m.onRead(atom, acc) : acc, value)
executeReadMiddleware(a, v, st) == ReadThrough(a, v, SingletonMw(st), 1)

\* an interceptor runs: its position in the list is noted
Ran(st, i) == [st EXCEPT !.ran = Append(@, i)]

RECURSIVE executeWriteMiddleware(_, _, _, _)
\* this.middleware.reduce((acc, m) => m.onWrite ? m.onWrite(atom, acc) : acc, value):
\* no next is handed over, so "pass" throws TypeError (next is not a
\* function), as "reject" does for a value it accepts, while for a value it
\* rejects it throws its own error; the value of the reduce after "block" is
\* undefined
executeWriteMiddleware(a, v, i, st) ==
  IF i > Len(SingletonMw(st)) THEN Ok(st, v)
  ELSE IF ~HasOnWrite(SingletonMw(st)[i]) THEN executeWriteMiddleware(a, v, i + 1, st)
  ELSE IF SingletonMw(st)[i] = "pass" THEN Fail(Ran(st, i), ErrType)
  ELSE IF SingletonMw(st)[i] = "reject"
  THEN IF Rejected(v) THEN FailMsg(Ran(st, i), ErrUser, <<MsgRejected>>)
       ELSE Fail(Ran(st, i), ErrType)
  ELSE executeWriteMiddleware(a, Undef, i + 1, Ran(st, i))

\* a depth guard that lets one more atom in
DepthReachedLate(stack) == Cardinality(stack) > maxCircularDepth

\* this.accessStack.size >= this.maxCircularDepth
DepthReached(stack) == Cardinality(stack) >= maxCircularDepth

\* a get that never finds its atom on the access stack
InStackNever(a, stack) == FALSE

\* this.accessStack.has(atom.key)
InStack(a, stack) == a \in stack

NoEntry == [has |-> FALSE, value |-> Undef, subscribers |-> <<>>, lastAccessed |-> 0]

RECURSIVE StoreGet(_, _, _)
RECURSIVE get(_, _, _)
RECURSIVE AtomRead(_, _, _, _)
RECURSIVE ConfigRead(_, _, _, _, _)
RECURSIVE DerivedGet(_, _, _, _)

\* Store.get of the singleton
StoreGet(a, st, d) ==
  IF d > StackLimit THEN Fail(st, ErrRange)
  ELSE IF InStack(a, st.stack) THEN Fail(st, ErrCircular)
  ELSE IF DepthReached(st.stack) THEN Fail(st, ErrCircular)
  ELSE IF st.atoms[a] # Undef THEN Ok(st, executeReadMiddleware(a, st.atoms[a], st))
  ELSE
    Bind(AtomRead(a, "singleton", [st EXCEPT !.stack = @ \cup {a}], d + 1),
         LAMBDA r :
           IF r.err # NoErr
           THEN FailMsg([r.st EXCEPT !.stack = @ \ {a}], r.err, r.msg)
           ELSE Ok([r.st EXCEPT !.atoms[a] = r.val, !.stack = @ \ {a}],
                   executeReadMiddleware(a, r.val, r.st)))

\* the call m.onError(error) of the interceptor at position i
Hooked(st, i, e) == [st EXCEPT !.hooked = Append(@, [hook |-> i, err |-> e])]
\* what a "faulty" onError throws
ErrHook == "HookError"

RECURSIVE handleError(_, _, _)
\* Store.handleError of part_005: m.onError(error) for every m that has
\* one, in the order of the list; nothing catches what an onError throws,
\* so it ends the loop and leaves handleError
handleError(st, e, i) ==
  IF i > Len(st.mw) THEN Ok(st, Undef)
  ELSE IF ~HasOnError(st.mw[i]) THEN handleError(st, e, i + 1)
  ELSE IF st.mw[i] = "faulty" THEN Fail(Hooked(st, i, e), ErrHook)
  ELSE handleError(Hooked(st, i, e), e, i + 1)

\* Store.get of the class Store of part_005: the onRead interceptors are
\* applied to the value of an existing entry; a value computed by this call
\* is returned as computed; an error caught on the way is handed to
\* handleError and thrown again
get(a, st, d) ==
  IF d > StackLimit THEN Fail(st, ErrRange)
  ELSE IF InStack(a, st.sStack) THEN Fail(st, ErrCircular)
  ELSE IF DepthReached(st.sStack) THEN Fail(st, ErrCircular)
  ELSE IF st.state[a].has
  THEN Ok([st EXCEPT !.state[a].lastAccessed = st.now],
          ReadThrough(a, st.state[a].value, st.mw, 1))
  ELSE
    Bind(AtomRead(a, "store", [st EXCEPT !.sStack = @ \cup {a}], d + 1),
         LAMBDA r :
           IF r.err # NoErr
           THEN Bind(handleError([r.st EXCEPT !.sStack = @ \ {a}], r.err, 1),
                     LAMBDA h : IF h.err # NoErr THEN h
                                ELSE FailMsg(h.st, r.err, r.msg))
           ELSE Ok([r.st EXCEPT !.sStack = @ \ {a},
                                !.state[a] = [has |-> TRUE, value |-> r.val,
                                              subscribers |-> <<>>,
                                              lastAccessed |-> r.st.now]],
                   r.val))

\* atom.read(get): createAtom's read is () => store.get(atom), a derived
\* atom's is () => config.read(get) with its own closure, and a plain
\* descriptor's is (get) => get(other) with the get it is handed
AtomRead(a, via, st, d) ==
  IF IsSource(a) THEN StoreGet(a, st, d)
  ELSE IF IsDerived(a) THEN ConfigRead(a, 1, <<>>, st, d)
  ELSE IF via = "singleton" THEN StoreGet(ReadDeps(a)[1], st, d)
  ELSE get(ReadDeps(a)[1], st, d)

\* the atoms a run of a read recipe asks for are noted, from its first step on
Noted(owner, i, st, got) ==
  [st EXCEPT !.reads[owner] = (IF i = 1 THEN {} ELSE @) \cup got]

\* config.read(get): reads the dependencies in order through the closure's get
ConfigRead(owner, i, vals, st, d) ==
  IF ReadStep(owner, vals).k = "return"
  THEN Ok(Noted(owner, i, st, {}), ReadStep(owner, vals).v)
  ELSE IF ReadStep(owner, vals).k = "throw"
  THEN FailMsg(Noted(owner, i, st, {}), ErrUser, <<ReadStep(owner, vals).msg>>)
  ELSE Bind(DerivedGet(owner, ReadStep(owner, vals).atom,
                       Noted(owner, i, st, {ReadStep(owner, vals).atom}), d),
            LAMBDA r :
              IF r.err # NoErr THEN r
              ELSE ConfigRead(owner, i + 1, Append(vals, r.val), r.st, d))

\* the `get` closure of createDerivedAtom
DerivedGet(owner, a, st, d) ==
  IF a \in st.visited[owner] THEN Fail(st, ErrCircular)
  ELSE Bind(StoreGet(a, [st EXCEPT !.visited[owner] = @ \cup {a},
                                    !.deps[owner] = @ \cup {a}], d + 1),
            LAMBDA r :
              IF r.err # NoErr THEN r
              ELSE Ok([r.st EXCEPT !.visited[owner] = @ \ {a}], r.val))

RECURSIVE NotifyAll(_, _, _, _)
RECURSIVE Invoke(_, _, _)

\* subscribers.forEach((callback) => callback())
NotifyAll(cbs, i, st, d) ==
  IF i > Len(cbs) THEN Ok(st, Undef)
  ELSE Bind(Invoke(cbs[i], st, d),
            LAMBDA r : IF r.err # NoErr THEN r ELSE NotifyAll(cbs, i + 1, r.st, d))

\* one callback of the singleton: a subscriber, or the recomputation that a
\* derived atom registered with its dependency
Invoke(cb, st, d) ==
  IF d > StackLimit THEN Fail(st, ErrRange)
  ELSE IF cb.t = "ui"
  THEN Ok(Record(st, <<cb.a, cb.id>>, st.atoms[cb.a], FALSE), Undef)
  ELSE
    Bind(ConfigRead(cb.a, 1, <<>>, st, d + 1),
         LAMBDA r :
           IF r.err = ErrCircular THEN r
           ELSE IF r.err # NoErr THEN Ok(r.st, Undef)
           ELSE Bind(IF cb.a \in r.st.subKeys
                     THEN NotifyAll(r.st.subs[cb.a], 1,
                                    [r.st EXCEPT !.atoms[cb.a] = r.val], d + 1)
                     ELSE Ok([r.st EXCEPT !.atoms[cb.a] = r.val], Undef),
                     LAMBDA n : IF n.err = ErrCircular THEN n ELSE Ok(n.st, Undef)))

\* a set that stores the value and invokes no subscriber
StoreSetSilent(a, v, st, d) ==
  Bind(executeWriteMiddleware(a, v, 1, st),
       LAMBDA m : IF m.err # NoErr THEN m ELSE Ok([m.st EXCEPT !.atoms[a] = m.val], Undef))

\* Store.set of the singleton
StoreSet(a, v, st, d) ==
  Bind(executeWriteMiddleware(a, v, 1, st),
       LAMBDA m :
         IF m.err # NoErr THEN m
         ELSE IF a \in m.st.subKeys
         THEN NotifyAll(m.st.subs[a], 1, [m.st EXCEPT !.atoms[a] = m.val], d + 1)
         ELSE Ok([m.st EXCEPT !.atoms[a] = m.val], Undef))

RECURSIVE AtomSet(_, _, _, _)
RECURSIVE RunWrite(_, _, _, _, _)

\* config.write(get, set, update): the statements of the write recipe in
\* order; the set it is handed is (target, value) => target.set(value).  The
\* recipe of createReducerAtom is one step: set(atom, reducer(get(atom), action))
RunWrite(owner, i, update, st, d) ==
  IF i > Len(WriteSteps(owner)) THEN Ok(st, Undef)
  ELSE IF WriteSteps(owner)[i].k = "throw"
  THEN FailMsg(st, ErrUser, <<WriteSteps(owner)[i].msg>>)
  ELSE IF WriteSteps(owner)[i].k = "reduce"
  THEN Bind(DerivedGet(owner, owner, st, d + 1),
            LAMBDA g :
              IF g.err # NoErr THEN g
              ELSE Bind(AtomSet(owner, [fn |-> FALSE, v |-> reducer(g.val, update)],
                                g.st, d + 1),
                        LAMBDA r :
                          IF r.err # NoErr THEN r
                          ELSE RunWrite(owner, i + 1, update, r.st, d)))
  ELSE Bind(AtomSet(WriteSteps(owner)[i].atom,
                    [fn |-> FALSE,
                     v |-> IF WriteSteps(owner)[i].half THEN update \div 2 ELSE update],
                    st, d + 1),
            LAMBDA r : IF r.err # NoErr THEN r ELSE RunWrite(owner, i + 1, update, r.st, d))

\* a catch block that rethrows InvalidAtomUpdateError without the message
RethrowBare(r) == FailMsg(r.st, ErrInvalidUpdate, <<>>)

\* catch (error): throw new InvalidAtomUpdateError(error.message)
Rethrow(r) == FailMsg(r.st, ErrInvalidUpdate, r.msg)

\* the set of a derived atom created with a write recipe
DerivedSet(a, u, st, d) ==
  Bind(IF u.fn
       THEN Bind(DerivedGet(a, a, st, d + 1),
                 LAMBDA g :
                   IF g.err # NoErr THEN g
                   ELSE RunWrite(a, 1, Resolve(u, g.val), g.st, d + 1))
       ELSE RunWrite(a, 1, u.v, st, d + 1),
       LAMBDA r : IF r.err # NoErr THEN Rethrow(r) ELSE r)

\* atom.set: of createAtom, or of createDerivedAtom with a write recipe; an
\* atom without a write recipe has no set property
AtomSet(a, u, st, d) ==
  IF d > StackLimit THEN Fail(st, ErrRange)
  ELSE IF a \in WritableDerivedAtoms THEN DerivedSet(a, u, st, d)
  ELSE IF ~IsSource(a) THEN Fail(st, ErrType)
  ELSE Bind(StoreGet(a, st, d + 1),
            LAMBDA g :
              IF g.err # NoErr THEN g
              ELSE StoreSet(a, Resolve(u, g.val), g.st, d + 1))

\* Store.subscribe and Store.unsubscribe of the singleton
StoreSubscribe(a, cb, st) ==
  LET cur == IF a \in st.subKeys THEN st.subs[a] ELSE <<>> IN
  [st EXCEPT !.subKeys = @ \cup {a}, !.subs[a] = SeqAdd(cur, cb)]

StoreUnsubscribe(a, cb, st) ==
  IF a \notin st.subKeys THEN st
  ELSE LET rest == SeqDel(st.subs[a], cb) IN
       IF Len(rest) = 0
       THEN [st EXCEPT !.subKeys = @ \ {a}, !.subs[a] = <<>>, !.atoms[a] = Undef]
       ELSE [st EXCEPT !.subs[a] = rest]

\* ------------------------------------- class Store (unnamed/part_005)
RECURSIVE notifySubscribers(_, _, _)
RECURSIVE batchEnter(_)
RECURSIVE batchLeave(_, _)
\* the body of a subscriber callback: the re-entrant one calls
\* store.batch(() => {}), the others only note what they are shown
Called(id, st) ==
  IF id \in ReentrantIds THEN batchLeave(batchEnter(st), FALSE) ELSE st

\* entry.subscribers.forEach((callback) => callback(entry.value))
notifySubscribers(a, i, st) ==
  IF i > Len(st.state[a].subscribers) THEN st
  ELSE notifySubscribers(a, i + 1,
         Called(st.state[a].subscribers[i],
                Record(st, <<a, st.state[a].subscribers[i]>>, st.state[a].value,
                       Len(st.frames) > 0)))

\* a performUpdate that queues the notification whether or not a batch runs
PublishDeferred(a, st) == [st EXCEPT !.batchUpdates = SeqAdd(@, a)]

\* a performUpdate that notifies at once whether or not a batch runs
PublishNow(a, st) == notifySubscribers(a, 1, st)

\* what performUpdate does with a changed value
Publish(a, st) ==
  IF st.isInBatch
  THEN [st EXCEPT !.batchUpdates = SeqAdd(@, a)]
  ELSE notifySubscribers(a, 1, st)

performUpdate(a, u, st, d) ==
  Bind(AtomSet(a, u, st, d + 1),
       LAMBDA w :
         IF w.err # NoErr THEN w
         ELSE Bind(AtomRead(a, "store", w.st, d + 1),
                   LAMBDA r :
                     IF r.err # NoErr THEN r
                     ELSE IF ~r.st.state[a].has THEN Fail(r.st, ErrNotFound)
                     ELSE IF ObjectIs(r.st.state[a].value, r.val) THEN Ok(r.st, Undef)
                     ELSE Ok(Publish(a, [r.st EXCEPT
                                           !.state[a].value = r.val,
                                           !.state[a].lastAccessed = r.st.now]),
                             Undef)))

\* the position of the first interceptor that has an onWrite, 0 without one
FirstOnWrite(mw) ==
  IF \E i \in 1..Len(mw) : HasOnWrite(mw[i])
  THEN CHOOSE i \in 1..Len(mw) :
         HasOnWrite(mw[i]) /\ \A j \in 1..(i - 1) : ~HasOnWrite(mw[j])
  ELSE 0

\* m.onWrite(atom, update, next) of the interceptor at position i, with
\* next = (nextUpdate) => this.performUpdate(atom, nextUpdate); "reject" is
\* handed the update as the caller gave it, a function included
onWrite(i, a, u, st, d) ==
  IF st.mw[i] = "pass" THEN performUpdate(a, u, Ran(st, i), d)
  ELSE IF st.mw[i] = "reject"
  THEN IF ~u.fn /\ Rejected(u.v) THEN FailMsg(Ran(st, i), ErrUser, <<MsgRejected>>)
       ELSE performUpdate(a, u, Ran(st, i), d)
  ELSE Ok(Ran(st, i), Undef)

\* the loop of Store.set: the first interceptor that has an onWrite is
\* called, and set returns after it; without one performUpdate is called
Intercepted(a, u, st, d) ==
  IF FirstOnWrite(st.mw) = 0 THEN performUpdate(a, u, st, d)
  ELSE onWrite(FirstOnWrite(st.mw), a, u, st, d)

\* Store.set: every failure is handed to handleError and leaves as
\* InvalidAtomUpdateError
set(a, u, st, d) ==
  Bind(Intercepted(a, u, st, d + 1),
       LAMBDA r :
         IF r.err # NoErr
         THEN Bind(handleError(r.st, r.err, 1),
                   LAMBDA h : IF h.err # NoErr THEN h
                              ELSE FailMsg(h.st, ErrInvalidUpdate,
                                           <<MsgFailedToUpdate>> \o r.msg))
         ELSE r)

\* Store.subscribe, and the unsubscribe function it returns
subscribe(a, id, st, d) ==
  Bind(IF st.state[a].has THEN Ok(st, Undef) ELSE get(a, st, d + 1),
       LAMBDA g :
         IF g.err # NoErr THEN g
         ELSE Ok([g.st EXCEPT !.state[a].subscribers = SeqAdd(@, id)], Undef))

CleanupAge == 60000
\* the time that passes between two calls of the program, when any passes
TickStep == CleanupAge + 1

unsubscribe(a, id, st) ==
  IF ~st.state[a].has THEN st
  ELSE LET rest == SeqDel(st.state[a].subscribers, id) IN
       IF /\ Len(rest) = 0
          /\ st.state[a].lastAccessed # 0
          /\ st.now - st.state[a].lastAccessed > CleanupAge
       THEN [st EXCEPT !.state[a] = NoEntry]
       ELSE [st EXCEPT !.state[a].subscribers = rest]

RECURSIVE FlushBatch(_, _)
\* this.batchUpdates.forEach(key => notify the entry, if it exists)
FlushBatch(i, st) ==
  IF i > Len(st.batchUpdates) THEN st
  ELSE FlushBatch(i + 1, IF st.state[st.batchUpdates[i]].has
                         THEN notifySubscribers(st.batchUpdates[i], 1, st)
                         ELSE st)

\* a batch that does not look at isInBatch: every batch opens and flushes
batchEnterAlways(st) ==
  [st EXCEPT !.isInBatch = TRUE, !.batchUpdates = <<>>, !.frames = Append(@, "outer")]

\* Store.batch up to the point where it runs its callback
batchEnter(st) ==
  IF st.isInBatch
  THEN [st EXCEPT !.frames = Append(@, "inner")]
  ELSE [st EXCEPT !.isInBatch = TRUE, !.batchUpdates = <<>>,
                  !.frames = Append(@, "outer")]

\* a batch whose flush is skipped when the callback throws (no finally)
batchLeaveNoFinally(st, throws) ==
  LET top == st.frames[Len(st.frames)]
      s1 == [st EXCEPT !.frames = SubSeq(@, 1, Len(@) - 1)]
  IN IF top = "inner" \/ throws THEN s1
     ELSE [FlushBatch(1, [s1 EXCEPT !.isInBatch = FALSE]) EXCEPT !.batchUpdates = <<>>]

\* Store.batch from the point where its callback returned or threw: the
\* finally block runs either way
batchLeave(st, throws) ==
  LET top == st.frames[Len(st.frames)]
      s1 == [st EXCEPT !.frames = SubSeq(@, 1, Len(@) - 1)]
  IN IF top = "inner" THEN s1
     ELSE [FlushBatch(1, [s1 EXCEPT !.isInBatch = FALSE]) EXCEPT !.batchUpdates = <<>>]

\* --------------------------------- computation cache (unnamed/part_006)
NoCacheEntry == [has |-> FALSE, value |-> Undef, dependencies |-> {}, lastComputed |-> 0]

RECURSIVE invalidate(_, _, _)
RECURSIVE InvalidateEach(_, _, _)
\* ComputationCache.invalidate
invalidate(k, st, d) ==
  IF d > StackLimit THEN Fail(st, ErrRange)
  ELSE InvalidateEach(st.graph[k],
                      [st EXCEPT !.cache[k] = NoCacheEntry, !.order = SeqDel(@, k),
                                 !.invalidated = Append(@, k)], d)

InvalidateEach(ks, st, d) ==
  IF ks = {} THEN Ok(st, Undef)
  ELSE Bind(invalidate(CHOOSE x \in ks : TRUE, st, d + 1),
            LAMBDA r :
              IF r.err # NoErr THEN r
              ELSE InvalidateEach(ks \ {CHOOSE x \in ks : TRUE}, r.st, d))

\* the lastComputed values of the entries of the cache
Times(st) == {st.cache[st.order[i]].lastComputed : i \in 1..Len(st.order)}

\* the first key in iteration order whose entry has the lastComputed t
FirstAt(st, t) == SelectSeq(st.order, LAMBDA k : st.cache[k].lastComputed = t)[1]

\* this.cache.delete(key)
cacheDelete(st, key) == [st EXCEPT !.cache[key] = NoCacheEntry, !.order = SeqDel(@, key)]

\* an eviction that removes the most recently used entry
evictNewest(st) ==
  IF st.order = <<>> THEN st
  ELSE Bind(Times(st),
            LAMBDA ts : cacheDelete(st, FirstAt(st, CHOOSE t \in ts : \A u \in ts : t >= u)))

\* an eviction that removes nothing
evictNone(st) == st

\* ComputationCache.evictOldest: entry.lastComputed < oldestTime keeps the
\* first key in iteration order among those with the smallest lastComputed
evictOldest(st) ==
  IF st.order = <<>> THEN st
  ELSE Bind(Times(st),
            LAMBDA ts : cacheDelete(st, FirstAt(st, CHOOSE t \in ts : \A u \in ts : t <= u)))

\* the size check of ComputationCache.set
Evicted(st) == IF Len(st.order) >= maxCacheSize THEN evictOldest(st) ELSE st

\* ComputationCache.set
cacheSet(k, v, deps, st) ==
  Bind(Evicted(st),
       LAMBDA s1 :
         [s1 EXCEPT !.cache[k] = [has |-> TRUE, value |-> v, dependencies |-> deps,
                                  lastComputed |-> s1.now],
                    !.order = SeqAdd(@, k),
                    !.graph = [dk \in DOMAIN s1.graph |->
                                 IF dk \in deps THEN s1.graph[dk] \cup {k}
                                 ELSE s1.graph[dk]]])

\* ComputationCache.get: the entry is returned with its lastComputed refreshed
cacheGet(k, st) ==
  IF st.cache[k].has
  THEN Ok([st EXCEPT !.cache[k].lastComputed = st.now], st.cache[k].value)
  ELSE Ok(st, Undef)

\* a sweep that deletes the old entries and leaves the dependency graph as
\* it is
runGCNoCleanup(st) ==
  Bind({k \in DOMAIN st.cache :
          st.cache[k].has /\ st.now - st.cache[k].lastComputed > maxCacheAge},
       LAMBDA keysToDelete :
         [st EXCEPT !.cache = [k \in DOMAIN st.cache |->
                                 IF k \in keysToDelete THEN NoCacheEntry ELSE st.cache[k]],
                    !.order = SelectSeq(@, LAMBDA k : k \notin keysToDelete)])

\* ComputationCache.runGC
runGC(st) ==
  Bind({k \in DOMAIN st.cache :
          st.cache[k].has /\ st.now - st.cache[k].lastComputed > maxCacheAge},
       LAMBDA keysToDelete :
         [st EXCEPT !.cache = [k \in DOMAIN st.cache |->
                                 IF k \in keysToDelete THEN NoCacheEntry ELSE st.cache[k]],
                    !.order = SelectSeq(@, LAMBDA k : k \notin keysToDelete),
                    !.graph = [k \in DOMAIN st.graph |->
                                 IF k \in keysToDelete THEN {}
                                 ELSE st.graph[k] \ keysToDelete]])

\* --------------------------- module-level store (unnamed/part_005)
RECURSIVE hNotifySubscribers(_, _, _, _)
RECURSIVE hInvoke(_, _, _)

\* notifySubscribers(key)
hNotifySubscribers(a, i, st, d) ==
  IF i > Len(st.hSubs[a]) THEN Ok(st, Undef)
  ELSE Bind(hInvoke(st.hSubs[a][i], st, d),
            LAMBDA r : IF r.err # NoErr THEN r ELSE hNotifySubscribers(a, i + 1, r.st, d))

\* one callback of store.subscribers: a hook's callback, or the callback that
\* createDerivedAtom registered with a dependency
hInvoke(cb, st, d) ==
  IF d > StackLimit THEN Fail(st, ErrRange)
  ELSE IF cb.t = "ui"
  THEN Ok(Record(st, <<cb.a, cb.id>>, st.hAtoms[cb.a], st.batchDepth > 0), Undef)
  ELSE Bind(invalidate(cb.a, st, d + 1),
            LAMBDA r :
              IF r.err # NoErr THEN r ELSE hNotifySubscribers(cb.a, 1, r.st, d + 1))

\* store.atoms.set(key, value); computationCache.invalidate(key); notifySubscribers(key)
hApply(a, v, st, d) ==
  Bind(invalidate(a, [st EXCEPT !.hAtoms[a] = v], d + 1),
       LAMBDA r : IF r.err # NoErr THEN r ELSE hNotifySubscribers(a, 1, r.st, d + 1))

\* Map.set on store.pendingUpdates
MapSet(m, k, v) ==
  IF \E i \in 1..Len(m) : m[i][1] = k
  THEN [i \in 1..Len(m) |-> IF m[i][1] = k THEN <<k, v>> ELSE m[i]]
  ELSE Append(m, <<k, v>>)

\* the set of createAtom
hAtomSet(a, u, st, d) ==
  IF st.hBatch
  THEN Ok([st EXCEPT !.pending = MapSet(@, a, Resolve(u, st.hAtoms[a]))], Undef)
  ELSE hApply(a, Resolve(u, st.hAtoms[a]), st, d)

\* the setValue that useAtom returns
setValue(a, u, st, d) ==
  IF a \in SourceAtoms THEN hAtomSet(a, u, st, d + 1) ELSE Fail(st, ErrNotFound)

\* the function of useBatchUpdates up to the point where it runs its callback
hBatchEnter(st) == [st EXCEPT !.batchDepth = @ + 1, !.hBatch = TRUE]

RECURSIVE ApplyPending(_, _, _)
ApplyPending(i, st, d) ==
  IF i > Len(st.pending) THEN Ok(st, Undef)
  ELSE Bind(hApply(st.pending[i][1], st.pending[i][2], st, d),
            LAMBDA r : IF r.err # NoErr THEN r ELSE ApplyPending(i + 1, r.st, d))

\* the function of useBatchUpdates from the point where its callback returned
\* or threw: the finally block runs either way
hBatchLeave(st, throws, d) ==
  IF st.batchDepth # 1 THEN Ok([st EXCEPT !.batchDepth = @ - 1], Undef)
  ELSE Bind(ApplyPending(1, [st EXCEPT !.batchDepth = @ - 1, !.hBatch = FALSE], d),
            LAMBDA r :
              IF r.err # NoErr THEN r ELSE Ok([r.st EXCEPT !.pending = <<>>], Undef))

\* ------------------------------------------------------- construction
Empty ==
  [atoms |-> [k \in Keys |-> Undef], subKeys |-> {}, subs |-> [k \in Keys |-> <<>>],
   stack |-> {}, visited |-> [k \in Keys |-> {}],
   deps |-> [k \in Keys |-> {}],
   state |-> [k \in Keys |-> NoEntry], sStack |-> {}, isInBatch |-> FALSE,
   batchUpdates |-> <<>>, frames |-> <<>>,
   hAtoms |-> [k \in Keys |-> Undef], hSubs |-> [k \in Keys |-> <<>>],
   hBatch |-> FALSE, pending |-> <<>>, batchDepth |-> 0,
   cache |-> [k \in Keys |-> NoCacheEntry], order |-> <<>>,
   graph |-> [k \in Keys |-> {}],
   now |-> 1, mw |-> <<>>, ran |-> <<>>, hooked |-> <<>>, invalidated |-> <<>>,
   api |-> "singleton",
   calls |-> [t \in Tokens |-> 0], early |-> [t \in Tokens |-> 0],
   seen |-> [t \in Tokens |-> Undef], shown |-> [t \in Tokens |-> <<>>],
   reads |-> [k \in Keys |-> {}]]

\* createAtom of src/atoms.ts
createAtom(a, init, st) ==
  [st EXCEPT !.atoms[a] = init, !.subKeys = @ \cup {a}, !.subs[a] = <<>>]

RECURSIVE SubscribeDeps(_, _, _)
SubscribeDeps(a, ds, st) ==
  IF ds = {} THEN st
  ELSE LET dk == CHOOSE x \in ds : TRUE
           s1 == IF dk \in st.subKeys
                 THEN [st EXCEPT !.subs[dk] = SeqAdd(@, RcCb(a))]
                 ELSE st
       IN SubscribeDeps(a, ds \ {dk}, s1)

\* createDerivedAtom of src/atoms.ts
createDerivedAtom(a, st) ==
  Bind(ConfigRead(a, 1, <<>>, st, 1),
       LAMBDA r :
         SubscribeDeps(a, r.st.deps[a],
                       [r.st EXCEPT !.atoms[a] = r.val, !.subKeys = @ \cup {a},
                                    !.subs[a] = <<>>]))

\* createAtom of part_005
hCreateAtom(a, init, st) == [st EXCEPT !.hAtoms[a] = init, !.hSubs[a] = <<>>]

RECURSIVE hSubscribeDeps(_, _, _)
hSubscribeDeps(a, i, st) ==
  IF i > Len(ReadDeps(a)) THEN st
  ELSE hSubscribeDeps(a, i + 1, [st EXCEPT !.hSubs[ReadDeps(a)[i]] = SeqAdd(@, RcCb(a))])

\* createDerivedAtom of part_005: its callbacks are fresh closures, so
\* checkCircular meets nothing twice; the value is computed here, once
hCreateDerivedAtom(a, st) ==
  Bind(hSubscribeDeps(a, 1, st),
       LAMBDA s1 :
         [s1 EXCEPT !.hAtoms[a] =
                      Compute(a, [i \in 1..Len(ReadDeps(a)) |-> s1.hAtoms[ReadDeps(a)[i]]]),
                    !.hSubs[a] = <<>>])

\* the module initialisation of the program: A, B and C are created
CreatedFrom(e) ==
  hCreateDerivedAtom("C", hCreateDerivedAtom("B", hCreateAtom("A", 0,
    createDerivedAtom("C", createDerivedAtom("B", createAtom("A", 0, e))))))

Created == CreatedFrom(Empty)

NoCall == [op |-> "init", atom |-> "A", err |-> NoErr, msg |-> <<>>, val |-> Undef,
           pre |-> Undef, arg |-> Undef, fn |-> FALSE, outer |-> FALSE]

Apis == {"singleton", "store", "hooks"}

Commit(st) ==
  /\ atoms' = st.atoms
  /\ subKeys' = st.subKeys
  /\ subs' = st.subs
  /\ accessStack' = st.stack
  /\ visited' = st.visited
  /\ dependencies' = st.deps
  /\ state' = st.state
  /\ sStack' = st.sStack
  /\ isInBatch' = st.isInBatch
  /\ batchUpdates' = st.batchUpdates
  /\ frames' = st.frames
  /\ hAtoms' = st.hAtoms
  /\ hSubs' = st.hSubs
  /\ hBatch' = st.hBatch
  /\ pending' = st.pending
  /\ batchDepth' = st.batchDepth
  /\ cache' = st.cache
  /\ cacheOrder' = st.order
  /\ dependencyGraph' = st.graph
  /\ now' = st.now
  /\ middleware' = st.mw
  /\ ran' = st.ran
  /\ hooked' = st.hooked
  /\ invalidated' = st.invalidated
  /\ calls' = st.calls
  /\ early' = st.early
  /\ seen' = st.seen
  /\ shown' = st.shown
  /\ reads' = st.reads

\* the variables of the stores, as the program's module initialisation w left them
Start(w) ==
  /\ atoms = w.atoms
  /\ subKeys = w.subKeys
  /\ subs = w.subs
  /\ accessStack = w.stack
  /\ visited = w.visited
  /\ dependencies = w.deps
  /\ state = w.state
  /\ sStack = w.sStack
  /\ isInBatch = w.isInBatch
  /\ batchUpdates = w.batchUpdates
  /\ frames = w.frames
  /\ hAtoms = w.hAtoms
  /\ hSubs = w.hSubs
  /\ hBatch = w.hBatch
  /\ pending = w.pending
  /\ batchDepth = w.batchDepth
  /\ cache = w.cache
  /\ cacheOrder = w.order
  /\ dependencyGraph = w.graph
  /\ now = w.now
  /\ middleware = w.mw
  /\ ran = w.ran
  /\ hooked = w.hooked
  /\ invalidated = w.invalidated
  /\ calls = w.calls
  /\ early = w.early
  /\ seen = w.seen
  /\ shown = w.shown
  /\ reads = w.reads
  /\ changed = {}
  /\ nested = FALSE
  /\ setTo = [k \in Keys |-> Undef]
  /\ began = [k \in Keys |-> Undef]
  /\ last = NoCall

Init ==
  /\ Start(Created)
  /\ api \in Apis

\* the state a call starts from: outside a batch the observations of the
\* previous call are cleared
Fresh ==
  IF frames = <<>> /\ batchDepth = 0
  THEN [Cur EXCEPT !.calls = [t \in Tokens |-> 0], !.early = [t \in Tokens |-> 0],
                   !.seen = [t \in Tokens |-> Undef], !.ran = <<>>,
                   !.hooked = <<>>, !.invalidated = <<>>,
                   !.shown = [t \in Tokens |-> <<>>]]
  ELSE [Cur EXCEPT !.ran = <<>>, !.hooked = <<>>, !.invalidated = <<>>,
                   !.shown = [t \in Tokens |-> <<>>]]

Call(op, a, r, pre, arg) ==
  [op |-> op, atom |-> a, err |-> r.err, msg |-> r.msg, val |-> r.val, pre |-> pre,
   arg |-> arg, fn |-> FALSE, outer |-> FALSE]

InBatch == frames # <<>> \/ batchDepth > 0


\* ---------------------------------------------- calls on the singleton
\* store.get(atom)
V2Get(a) ==
  /\ api = "singleton"
  /\ LET r == StoreGet(a, Fresh, 1) IN
     /\ Commit(r.st)
     /\ last' = Call("get", a, r, atoms[a], Undef)
  /\ UNCHANGED <<api, changed, nested, setTo, began>>

\* atom.set(update)
V2AtomSet(a, u) ==
  /\ api = "singleton"
  /\ LET r == AtomSet(a, u, Fresh, 1) IN
     /\ Commit(r.st)
     /\ last' = [Call("set", a, r, atoms[a], Resolve(u, atoms[a])) EXCEPT !.fn = u.fn]
  /\ UNCHANGED <<api, changed, nested, setTo, began>>

\* store.set(atom, value)
V2StoreSet(a, v) ==
  /\ api = "singleton"
  /\ LET r == StoreSet(a, v, Fresh, 1) IN
     /\ Commit(r.st)
     /\ last' = Call("storeSet", a, r, atoms[a], v)
  /\ UNCHANGED <<api, changed, nested, setTo, began>>

\* store.subscribe(atom.key, callback)
V2Subscribe(a, id) ==
  /\ api = "singleton"
  /\ Commit(StoreSubscribe(a, UiCb(a, id), Fresh))
  /\ last' = Call("subscribe", a, Ok(Cur, Undef), atoms[a], Undef)
  /\ UNCHANGED <<api, changed, nested, setTo, began>>

\* store.unsubscribe(atom.key, callback)
V2Unsubscribe(a, id) ==
  /\ api = "singleton"
  /\ a \in subKeys
  /\ SeqHas(subs[a], UiCb(a, id))
  /\ Commit(StoreUnsubscribe(a, UiCb(a, id), Fresh))
  /\ last' = Call("unsubscribe", a, Ok(Cur, Undef), atoms[a], Undef)
  /\ UNCHANGED <<api, changed, nested, setTo, began>>

\* -------------------------------------------- calls on the class Store
\* store.get(atom)
SGet(a) ==
  /\ api = "store"
  /\ LET r == get(a, Fresh, 1) IN
     /\ Commit(r.st)
     /\ last' = Call("get", a, r, state[a].value, Undef)
  /\ UNCHANGED <<api, changed, nested, setTo, began>>

\* store.set(atom, update)
SSet(a, u) ==
  /\ api = "store"
  /\ LET r == set(a, u, Fresh, 1) IN
     /\ Commit(r.st)
     /\ last' = [Call("set", a, r, state[a].value, Resolve(u, atoms[a])) EXCEPT !.fn = u.fn]
     /\ changed' = IF InBatch /\ r.err = NoErr /\ r.st.state[a].value # state[a].value
                   THEN changed \cup {a} ELSE changed
     /\ setTo' = IF InBatch /\ r.err = NoErr
                 THEN [setTo EXCEPT ![a] = Resolve(u, atoms[a])] ELSE setTo
     /\ began' = IF InBatch /\ r.err = NoErr /\ began[a] = Undef
                 THEN [began EXCEPT ![a] = state[a].value] ELSE began
  /\ UNCHANGED <<api, nested>>

\* store.subscribe(atom, callback)
SSubscribe(a, id) ==
  /\ api = "store"
  /\ LET r == subscribe(a, id, Fresh, 1) IN
     /\ Commit(r.st)
     /\ last' = Call("subscribe", a, r, state[a].value, Undef)
  /\ UNCHANGED <<api, changed, nested, setTo, began>>

\* the function that store.subscribe(atom, callback) returned
SUnsubscribe(a, id) ==
  /\ api = "store"
  /\ SeqHas(state[a].subscribers, id)
  /\ Commit(unsubscribe(a, id, Fresh))
  /\ last' = Call("unsubscribe", a, Ok(Cur, Undef), state[a].value, Undef)
  /\ UNCHANGED <<api, changed, nested, setTo, began>>

\* store.batch(callback) is entered: the callback starts to run
SBatchBegin ==
  /\ api = "store"
  /\ Len(frames) < MaxBatchDepth
  /\ Commit(batchEnter(Fresh))
  /\ last' = [NoCall EXCEPT !.op = "batchBegin", !.outer = ~isInBatch]
  /\ changed' = IF isInBatch THEN changed ELSE {}
  /\ nested' = IF isInBatch THEN nested ELSE FALSE
  /\ setTo' = IF isInBatch THEN setTo ELSE [k \in Keys |-> Undef]
  /\ UNCHANGED began
  /\ UNCHANGED api

\* the callback of the innermost running batch returns, or throws
SBatchEnd(throws) ==
  /\ api = "store"
  /\ frames # <<>>
  /\ Commit(batchLeave(Cur, throws))
  /\ last' = [NoCall EXCEPT !.op = "batchEnd", !.outer = (Len(frames) = 1),
                            !.err = IF throws THEN ErrUser ELSE NoErr]
  /\ nested' = (nested \/ Len(frames) > 1)
  /\ began' = IF Len(frames) = 1 THEN [k \in Keys |-> Undef] ELSE began
  /\ UNCHANGED <<api, changed, setTo>>

\* ------------------------------------- calls on the module-level store
\* the value useAtom renders: store.atoms.get(atom.key)
HRead(a) ==
  /\ api = "hooks"
  /\ Commit(Fresh)
  /\ last' = Call("get", a, Ok(Cur, hAtoms[a]), hAtoms[a], Undef)
  /\ UNCHANGED <<api, changed, nested, setTo, began>>

\* the setter useAtom returns
HSetValue(a, u) ==
  /\ api = "hooks"
  /\ LET r == setValue(a, u, Fresh, 1) IN
     /\ Commit(r.st)
     /\ last' = [Call("set", a, r, hAtoms[a], Resolve(u, hAtoms[a])) EXCEPT !.fn = u.fn]
     /\ changed' = IF InBatch /\ r.err = NoErr /\ Resolve(u, hAtoms[a]) # hAtoms[a]
                   THEN changed \cup {a} ELSE changed
     /\ setTo' = IF InBatch /\ r.err = NoErr
                 THEN [setTo EXCEPT ![a] = Resolve(u, hAtoms[a])] ELSE setTo
     /\ began' = IF InBatch /\ r.err = NoErr /\ began[a] = Undef
                 THEN [began EXCEPT ![a] = hAtoms[a]] ELSE began
  /\ UNCHANGED <<api, nested>>

\* the effect of useAtom: subscribers.add(callback)
HSubscribe(a, id) ==
  /\ api = "hooks"
  /\ Commit([Fresh EXCEPT !.hSubs[a] = SeqAdd(@, UiCb(a, id))])
  /\ last' = Call("subscribe", a, Ok(Cur, Undef), hAtoms[a], Undef)
  /\ UNCHANGED <<api, changed, nested, setTo, began>>

\* the cleanup of the effect of useAtom: subscribers.delete(callback)
HUnsubscribe(a, id) ==
  /\ api = "hooks"
  /\ SeqHas(hSubs[a], UiCb(a, id))
  /\ Commit([Fresh EXCEPT !.hSubs[a] = SeqDel(@, UiCb(a, id))])
  /\ last' = Call("unsubscribe", a, Ok(Cur, Undef), hAtoms[a], Undef)
  /\ UNCHANGED <<api, changed, nested, setTo, began>>

\* the function of useBatchUpdates is entered: the callback starts to run
HBatchBegin ==
  /\ api = "hooks"
  /\ batchDepth < MaxBatchDepth
  /\ Commit(hBatchEnter(Fresh))
  /\ last' = [NoCall EXCEPT !.op = "batchBegin", !.outer = (batchDepth = 0)]
  /\ changed' = IF batchDepth = 0 THEN {} ELSE changed
  /\ nested' = IF batchDepth = 0 THEN FALSE ELSE nested
  /\ setTo' = IF batchDepth = 0 THEN [k \in Keys |-> Undef] ELSE setTo
  /\ UNCHANGED began
  /\ UNCHANGED api

\* the callback of the innermost running batch returns, or throws
HBatchEnd(throws) ==
  /\ api = "hooks"
  /\ batchDepth > 0
  /\ LET r == hBatchLeave(Cur, throws, 1) IN
     /\ Commit(r.st)
     /\ last' = [NoCall EXCEPT !.op = "batchEnd", !.outer = (batchDepth = 1),
                               !.err = IF throws THEN ErrUser ELSE r.err]
  /\ nested' = (nested \/ batchDepth > 1)
  /\ began' = IF batchDepth = 1 THEN [k \in Keys |-> Undef] ELSE began
  /\ UNCHANGED <<api, changed, setTo>>

Next ==
  \/ \E a \in BaseAtoms : V2Get(a)
  \/ \E a \in CreatedAtoms, u \in Updates : V2AtomSet(a, u)
  \/ \E a \in DirectSetAtoms, v \in Val : V2StoreSet(a, v)
  \/ \E a \in WatchedAtoms, id \in UiIds : V2Subscribe(a, id)
  \/ \E a \in WatchedAtoms, id \in UiIds : V2Unsubscribe(a, id)
  \/ \E a \in StoreAtoms : SGet(a)
  \/ \E a \in StoreSetAtoms, u \in Updates : SSet(a, u)
  \/ \E id \in StoreIds : SSubscribe("A", id)
  \/ \E id \in StoreIds : SUnsubscribe("A", id)
  \/ SBatchBegin
  \/ \E throws \in BOOLEAN : SBatchEnd(throws)
  \/ \E a \in CreatedAtoms : HRead(a)
  \/ \E a \in HookSetAtoms, u \in Updates : HSetValue(a, u)
  \/ \E id \in HookIds : HSubscribe("A", id)
  \/ \E id \in HookIds : HUnsubscribe("A", id)
  \/ HBatchBegin
  \/ \E throws \in BOOLEAN : HBatchEnd(throws)

Spec == Init /\ [][Next]_vars

\* ------------------------------------------- programs with write recipes
\* a program that creates A and the derived atoms W, T and P, and uses them
\* through the singleton store or through a Store of part_005
WriteAtoms == {"A", "W", "T", "P"}
ThrowingWriteAtoms == {"T", "P"}
\* v / 2 is exact for the even values only
EvenUpdates == {u \in Updates : ~u.fn /\ u.v % 2 = 0}

CreatedWrite ==
  createDerivedAtom("P", createDerivedAtom("T", createDerivedAtom("W",
    createAtom("A", 0, Empty))))

InitWrite ==
  /\ Start(CreatedWrite)
  /\ api \in {"singleton", "store"}

NextWrite ==
  \/ \E a \in WriteAtoms : V2Get(a)
  \/ \E a \in ThrowingWriteAtoms \cup {"A"}, u \in Updates : V2AtomSet(a, u)
  \/ \E u \in EvenUpdates : V2AtomSet("W", u)
  \/ \E id \in UiIds : V2Subscribe("W", id)
  \/ \E id \in UiIds : V2Unsubscribe("W", id)
  \/ \E a \in WriteAtoms : SGet(a)
  \/ \E a \in ThrowingWriteAtoms \cup {"A"}, u \in Updates : SSet(a, u)
  \/ \E u \in EvenUpdates : SSet("W", u)

SpecWrite == InitWrite /\ [][NextWrite]_vars

\* ------------------------------------- programs with branching recipes
\* a program that creates A, L, E and D, and uses them through the singleton
\* store or through a Store of part_005, while time passes
DynAtoms == {"A", "L", "E", "D"}
DroppableAtoms == {"L", "E"}

CreatedDyn ==
  createDerivedAtom("D", createDerivedAtom("E", createAtom("L", 0,
    createAtom("A", 0, Empty))))

InitDyn ==
  /\ Start(CreatedDyn)
  /\ api \in {"singleton", "store"}

\* Date.now() advances
Tick(step, most) ==
  /\ now < 1 + most * step
  /\ now' = now + step
  /\ last' = [NoCall EXCEPT !.op = "tick"]
  /\ UNCHANGED <<atoms, subKeys, subs, accessStack, visited, dependencies, state,
                 sStack, isInBatch, batchUpdates, frames, hAtoms, hSubs, hBatch,
                 pending, batchDepth, cache, cacheOrder, dependencyGraph, middleware,
                 ran, hooked, invalidated, api, changed, nested, setTo, began, calls, early,
                 seen,
                 shown, reads>>

NextDyn ==
  \/ \E a \in DynAtoms : V2Get(a)
  \/ \E u \in Updates : V2AtomSet("A", u)
  \/ \E a \in DroppableAtoms : V2Subscribe(a, "cb1")
  \/ \E a \in DroppableAtoms : V2Unsubscribe(a, "cb1")
  \/ \E a \in DynAtoms : SGet(a)
  \/ \E u \in Updates : SSet("A", u)
  \/ \E a \in DroppableAtoms : SSubscribe(a, "s1")
  \/ \E a \in DroppableAtoms : SUnsubscribe(a, "s1")
  \/ Tick(TickStep, MaxTicks)

SpecDyn == InitDyn /\ [][NextDyn]_vars

\* ------------------------------------------- programs with a long chain
\* Plain descriptors 1 .. ChainLen in a chain without a cycle: each reads the
\* next one ({key, read: get => get(next) + 1}) and the last one returns 0.
\* The chain is three atoms longer than the maximum depth.  The program hands
\* them to the singleton store or to a Store of part_005; no descriptor is
\* cached before its first get.
ChainLen == maxCircularDepth + 3
ChainKeys == 1..ChainLen

\* The nested calls get(k), get(k + 1), ... that one Store.get on a chain
\* descriptor makes, unrolled: when get(j) is entered, the access stack holds
\* the descriptors k .. j - 1 on top of what it held before.
ChainStack(k, j, stack) == stack \cup (k..(j - 1))

\* get(j) does not call atom.read(get) on a further descriptor: a guard
\* throws, the value is cached, or the read of the last descriptor returns 0
ChainStops(k, j, stack, c) ==
  \/ InStack(j, ChainStack(k, j, stack))
  \/ DepthReached(ChainStack(k, j, stack))
  \/ c[j] # Undef
  \/ j = ChainLen

\* the descriptor at which the nested calls end
ChainEnd(k, stack, c) ==
  CHOOSE j \in k..ChainLen :
    /\ ChainStops(k, j, stack, c)
    /\ \A i \in k..(j - 1) : ~ChainStops(k, i, stack, c)

\* Store.get on a descriptor of the chain, with the values c cached so far:
\* a guard that throws at the end of the nested calls is passed on by every
\* caller and nothing is stored; otherwise every caller stores and returns
\* the value it computed
ChainGet(k, stack, c) ==
  LET j == ChainEnd(k, stack, c)
      b == IF c[j] # Undef THEN c[j] ELSE 0
  IN IF InStack(j, ChainStack(k, j, stack)) \/ DepthReached(ChainStack(k, j, stack))
     THEN [err |-> ErrCircular, msg |-> <<ErrCircular>>, val |-> Undef, cache |-> c]
     ELSE [err |-> NoErr, msg |-> <<>>, val |-> b + (j - k),
           cache |-> [i \in ChainKeys |-> IF i >= k /\ i <= j THEN b + (j - i) ELSE c[i]]]

\* the entry that Store.get of part_005 makes for a computed value
ChainEntry(v) ==
  IF v = Undef THEN NoEntry
  ELSE [has |-> TRUE, value |-> v, subscribers |-> <<>>, lastAccessed |-> now]

CreatedChain ==
  [Empty EXCEPT !.atoms = [k \in ChainKeys |-> Undef],
                !.state = [k \in ChainKeys |-> NoEntry]]

InitChain ==
  /\ Start(CreatedChain)
  /\ api \in {"singleton", "store"}

\* store.get(descriptor) on the singleton
ChainV2Get(k) ==
  /\ api = "singleton"
  /\ atoms' = ChainGet(k, accessStack, atoms).cache
  /\ last' = Call("get", k, ChainGet(k, accessStack, atoms), atoms[k], Undef)
  /\ UNCHANGED <<subKeys, subs, accessStack, visited, dependencies, state, sStack,
                 isInBatch, batchUpdates, frames, hAtoms, hSubs, hBatch, pending,
                 batchDepth, cache, cacheOrder, dependencyGraph, now, middleware, ran,
                 hooked, invalidated, api, changed, nested, setTo, began, calls, early,
                 seen,
                 shown, reads>>

\* store.get(descriptor) on a Store of part_005
ChainSGet(k) ==
  /\ api = "store"
  /\ state' = [j \in ChainKeys |->
                ChainEntry(ChainGet(k, sStack, [i \in ChainKeys |-> state[i].value]).cache[j])]
  /\ last' = Call("get", k, ChainGet(k, sStack, [i \in ChainKeys |-> state[i].value]),
                  state[k].value, Undef)
  /\ UNCHANGED <<atoms, subKeys, subs, accessStack, visited, dependencies, sStack,
                 isInBatch, batchUpdates, frames, hAtoms, hSubs, hBatch, pending,
                 batchDepth, cache, cacheOrder, dependencyGraph, now, middleware, ran,
                 hooked, invalidated, api, changed, nested, setTo, began, calls, early,
                 seen,
                 shown, reads>>

\* the descriptors the program asks for: the first ones, whose get has the
\* longest way to go, one in the middle, and the last ones
ChainProbes == (1..8) \cup {ChainLen \div 2} \cup ((ChainLen - 3)..ChainLen)

NextChain ==
  \/ \E k \in ChainProbes : ChainV2Get(k)
  \/ \E k \in ChainProbes : ChainSGet(k)

SpecChain == InitChain /\ [][NextChain]_vars

\* --------------------------------------- programs with a reducer atom
\* the dispatch function that createReducerAtom returns: atom.read((a) => a)
\* runs the read recipe, and atom.write is not a property of the atom that
\* createDerivedAtom returned, so the call of it throws TypeError
dispatch(action, st, d) ==
  Bind(ConfigRead("R", 1, <<>>, st, d + 1),
       LAMBDA r : IF r.err # NoErr THEN r ELSE Fail(r.st, ErrType))

\* a program that creates A and the reducer atom R, and uses them through
\* the singleton store or through a Store of part_005
ReducerAtoms == {"A", "R"}
Actions == 1..MaxVal

CreatedReducer == createDerivedAtom("R", createAtom("A", 0, Empty))

InitReducer ==
  /\ Start(CreatedReducer)
  /\ api \in {"singleton", "store"}

\* dispatch(action)
Dispatch(action) ==
  /\ LET r == dispatch(action, Fresh, 1) IN
     /\ Commit(r.st)
     /\ last' = Call("dispatch", "R", r, atoms["R"], action)
  /\ UNCHANGED <<api, changed, nested, setTo, began>>

NextReducer ==
  \/ \E a \in ReducerAtoms : V2Get(a)
  \/ \E a \in ReducerAtoms, u \in Updates : V2AtomSet(a, u)
  \/ \E id \in UiIds : V2Subscribe("R", id)
  \/ \E id \in UiIds : V2Unsubscribe("R", id)
  \/ \E a \in ReducerAtoms : SGet(a)
  \/ \E a \in ReducerAtoms, u \in Updates : SSet(a, u)
  \/ \E action \in Actions : Dispatch(action)

SpecReducer == InitReducer /\ [][NextReducer]_vars

\* ------------------------------------- programs with write interceptors
\* a program that constructs its store with a middleware list, creates A, B
\* and C, and sets and watches A
MwLists ==
  {<<"block">>, <<"pass">>, <<"block", "pass">>, <<"pass", "block">>, <<"pass", "pass">>,
   <<"reject">>, <<"add">>, <<"add", "twice">>, <<"twice", "add">>, <<"add", "pass">>}

InitMw ==
  /\ api \in {"singleton", "store"}
  /\ \E m \in MwLists : Start(CreatedFrom([Empty EXCEPT !.mw = m, !.api = api]))

NextMw ==
  \/ \E a \in CreatedAtoms : V2Get(a)
  \/ \E u \in Updates : V2AtomSet("A", u)
  \/ \E v \in Val : V2StoreSet("A", v)
  \/ \E id \in UiIds : V2Subscribe("A", id)
  \/ \E id \in UiIds : V2Unsubscribe("A", id)
  \/ \E a \in CreatedAtoms : SGet(a)
  \/ \E u \in Updates : SSet("A", u)
  \/ \E id \in StoreIds : SSubscribe("A", id)
  \/ \E id \in StoreIds : SUnsubscribe("A", id)

SpecMw == InitMw /\ [][NextMw]_vars

\* ------------------------------------------ programs with error hooks
\* a program that constructs its store with onError hooks, creates A, E and
\* D, and also hands the store the descriptors X, Y and S, whose reads close
\* a cycle
WatchLists == {<<"watch">>, <<"watch", "watch">>, <<"faulty">>, <<"watch", "faulty">>}
ErrAtoms == {"A", "E", "D", "X", "Y", "S"}

CreatedErr(e) == createDerivedAtom("D", createDerivedAtom("E", createAtom("A", 0, e)))

InitErr ==
  /\ api \in {"singleton", "store"}
  /\ \E m \in WatchLists : Start(CreatedErr([Empty EXCEPT !.mw = m, !.api = api]))

NextErr ==
  \/ \E a \in ErrAtoms : V2Get(a)
  \/ \E u \in Updates : V2AtomSet("A", u)
  \/ V2Subscribe("E", "cb1")
  \/ V2Unsubscribe("E", "cb1")
  \/ \E a \in ErrAtoms : SGet(a)
  \/ \E u \in Updates : SSet("A", u)

SpecErr == InitErr /\ [][NextErr]_vars

\* ------------------------------------- programs that use the cache
\* a program that has stored the atoms 1 .. maxCacheSize at time 1, one after
\* the other, and goes on with the atoms of CacheProbes: two of the atoms
\* stored first and a new one, which depends on atom 1
CacheKeys == 1..(maxCacheSize + 1)
CacheProbes == {1, 2, maxCacheSize + 1}
CacheDeps(k) == IF k = maxCacheSize + 1 THEN {1} ELSE {}
GcTickStep == maxCacheAge + 1

CreatedCache ==
  [Empty EXCEPT
     !.cache = [k \in CacheKeys |->
                  IF k <= maxCacheSize
                  THEN [has |-> TRUE, value |-> 0, dependencies |-> {}, lastComputed |-> 1]
                  ELSE NoCacheEntry],
     !.order = [i \in 1..maxCacheSize |-> i],
     !.graph = [k \in CacheKeys |-> {}]]

InitCache ==
  /\ Start(CreatedCache)
  /\ api = "cache"

\* the entries stored first that are no longer in the cache
Gone == {k \in DOMAIN cache : k <= maxCacheSize /\ ~cache[k].has}

\* computationCache.set(atom, value, dependencies, computeTime)
CacheSetWith(k, v, deps) ==
  /\ api = "cache"
  /\ Len(cacheOrder) < maxCacheSize \/ Cardinality(Gone) < MaxEvictions
  /\ Commit(cacheSet(k, v, deps, Fresh))
  /\ last' = [NoCall EXCEPT !.op = "cacheSet", !.atom = k, !.arg = v,
                            !.pre = Len(cacheOrder)]
  /\ UNCHANGED <<api, changed, nested, setTo, began>>

CacheSet(k, v) == CacheSetWith(k, v, CacheDeps(k))

\* computationCache.get(atom)
CacheGet(k) ==
  /\ api = "cache"
  /\ Commit(cacheGet(k, Fresh).st)
  /\ last' = [NoCall EXCEPT !.op = "cacheGet", !.atom = k, !.val = cacheGet(k, Fresh).val,
                            !.pre = Len(cacheOrder)]
  /\ UNCHANGED <<api, changed, nested, setTo, began>>

\* computationCache.invalidate(atom.key)
CacheInvalidate(k) ==
  /\ api = "cache"
  /\ Commit(invalidate(k, Fresh, 1).st)
  /\ last' = [NoCall EXCEPT !.op = "invalidate", !.atom = k, !.err = invalidate(k, Fresh, 1).err,
                            !.pre = Len(cacheOrder)]
  /\ UNCHANGED <<api, changed, nested, setTo, began>>

\* the interval timer of the cache fires: runGC()
CacheGC ==
  /\ api = "cache"
  /\ Commit(runGC(Fresh))
  /\ last' = [NoCall EXCEPT !.op = "runGC", !.pre = Len(cacheOrder)]
  /\ UNCHANGED <<api, changed, nested, setTo, began>>

NextCache ==
  \/ \E k \in CacheProbes : CacheSet(k, 0)
  \/ \E k \in CacheProbes : CacheGet(k)
  \/ \E k \in CacheProbes : CacheInvalidate(k)
  \/ CacheGC
  \/ Tick(GcTickStep, MaxCacheTicks)

SpecCache == InitCache /\ [][NextCache]_vars

\* ------------------------------------------ programs with a diamond
\* a program that creates A, B, M and J with the API of src/atoms.ts, and
\* whose callers subscribe to J
DiamondProgram == {"A", "B", "M", "J"}

CreatedDiamond ==
  createDerivedAtom("J", createDerivedAtom("M", createDerivedAtom("B",
    createAtom("A", 0, Empty))))

InitDiamond ==
  /\ Start(CreatedDiamond)
  /\ api = "singleton"

NextDiamond ==
  \/ \E a \in DiamondProgram : V2Get(a)
  \/ \E u \in Updates : V2AtomSet("A", u)
  \/ \E id \in UiIds : V2Subscribe("J", id)
  \/ \E id \in UiIds : V2Unsubscribe("J", id)

SpecDiamond == InitDiamond /\ [][NextDiamond]_vars

\* ------------------------- programs whose recipe changes its branch
\* a program that creates A, N and K with the API of src/atoms.ts
BranchProgram == {"A", "N", "K"}

CreatedBranch == createDerivedAtom("K", createAtom("N", 0, createAtom("A", 0, Empty)))

InitBranch ==
  /\ Start(CreatedBranch)
  /\ api = "singleton"

NextBranch ==
  \/ \E a \in BranchProgram : V2Get(a)
  \/ \E a \in {"A", "N"} : \E u \in Updates : V2AtomSet(a, u)
  \/ V2Subscribe("K", "cb1")
  \/ V2Unsubscribe("K", "cb1")

SpecBranch == InitBranch /\ [][NextBranch]_vars

\* ------------------------------ programs with a re-entrant subscriber
\* a program that creates A and L, uses them through a Store of part_005,
\* and subscribes to A a callback that itself calls store.batch
ReenterAtoms == {"A", "L"}

CreatedReenter == createAtom("L", 0, createAtom("A", 0, Empty))

InitReenter ==
  /\ Start(CreatedReenter)
  /\ api = "store"

NextReenter ==
  \/ \E a \in ReenterAtoms : SSet(a, [fn |-> TRUE, v |-> 0])
  \/ \E id \in ReentrantIds : SSubscribe("A", id)
  \/ SSubscribe("L", "s1")
  \/ SBatchBegin
  \/ SBatchEnd(FALSE)

SpecReenter == InitReenter /\ [][NextReenter]_vars

\* ------------------------------- programs that cache a few atoms
\* a program that caches three atoms whose recipes branch: atom 1 reads
\* atom 2 in some of its computations, atom 2 reads atom 1 in some of its
\* own, and atom 3 reads both; it stores no entry whose dependencies, with
\* those of the live entries, would close a cycle
InvKeys == 1..3
InvDepChoices(k) ==
  CASE k = 1 -> {{}, {2}}
    [] k = 2 -> {{}, {1}}
    [] OTHER -> {{1, 2}}

\* the live entries record no two atoms as depending on each other
Acyclic(k, deps) ==
  \A j \in deps : ~(cache[j].has /\ k \in cache[j].dependencies)

CreatedInv ==
  [Empty EXCEPT !.cache = [k \in InvKeys |-> NoCacheEntry],
                !.graph = [k \in InvKeys |-> {}]]

InitInv ==
  /\ Start(CreatedInv)
  /\ api = "cache"

NextInv ==
  \/ \E k \in InvKeys : \E deps \in InvDepChoices(k) :
       Acyclic(k, deps) /\ CacheSetWith(k, 0, deps)
  \/ \E k \in InvKeys : CacheGet(k)
  \/ \E k \in InvKeys : CacheInvalidate(k)
  \/ CacheGC
  \/ Tick(GcTickStep, MaxCacheTicks)

SpecInv == InitInv /\ [][NextInv]_vars

\* ------------------------------------------------------------ observers
\* the value the next get of the atom returns (Undef when it fails)
GetNow(a) ==
  CASE api = "singleton" -> StoreGet(a, Cur, 1).val
    [] api = "store" -> get(a, Cur, 1).val
    [] OTHER -> hAtoms[a]

\* the subscriptions to an atom
SubsOf(a) ==
  CASE api = "singleton" ->
         {<<a, id>> : id \in {i \in UiIds : a \in subKeys /\ SeqHas(subs[a], UiCb(a, i))}}
    [] api = "store" ->
         {<<a, id>> : id \in {i \in StoreIds \cup ReentrantIds :
                                  SeqHas(state[a].subscribers, i)}}
    [] OTHER ->
         {<<a, id>> : id \in {i \in HookIds : SeqHas(hSubs[a], UiCb(a, i))}}

SetReturned == last.op \in {"set", "storeSet"} /\ last.err = NoErr
NoCalls == \A t \in Tokens : calls[t] = 0
OuterBatchDone == last.op = "batchEnd" /\ last.outer

\* ---------------------------------------------------------------- claims

\* C1: for the chain A -> B -> C, once set(A, v) has returned, the next
\* get(B) and get(C) return the values their read recipes produce from v.
C1_CascadeInvalidation ==
  (SetReturned /\ last.atom = "A" /\ ~InBatch) =>
    /\ GetNow("B") = Compute("B", <<GetNow("A")>>)
    /\ GetNow("C") = Compute("C", <<GetNow("B")>>)

\* C2: a set with a value equal to the atom's current value invokes no
\* subscriber callback.
C2_ChangeSuppression ==
  (SetReturned /\ last.arg = last.pre) => NoCalls

\* C3: outside a batch, a set with a value different from the atom's current
\* value invokes every callback subscribed to that atom exactly once before
\* it returns.
C3_NotifyOnce ==
  (SetReturned /\ ~InBatch /\ last.arg # last.pre) =>
    \A t \in SubsOf(last.atom) : calls[t] = 1

C3_Witness ==
  /\ SetReturned /\ ~InBatch /\ last.arg # last.pre
  /\ Cardinality(SubsOf(last.atom)) = 2
  /\ \A t \in SubsOf(last.atom) : calls[t] = 1

\* C4: a set(base, v) that changes doubled makes get(doubled) return the new
\* value and fires every subscriber of doubled exactly once; a following
\* set(base, v) with the same v fires no subscriber of doubled.
C4_DoubledScenario ==
  (SetReturned /\ last.atom = "A" /\ ~InBatch) =>
    IF last.arg # last.pre
    THEN /\ GetNow("B") = Compute("B", <<last.arg>>)
         /\ \A t \in SubsOf("B") : calls[t] = 1
    ELSE \A t \in SubsOf("B") : calls[t] = 0

\* C5: get of an atom whose read closes a cycle (X reads Y and Y reads X, S
\* reads itself) fails with CircularDependencyError, whichever atom of the
\* cycle is asked for, and nothing is cached or left on the access stack.
C5_CycleDetection ==
  (last.op = "get" /\ last.atom \in PlainAtoms) =>
    /\ last.err = ErrCircular
    /\ \A k \in PlainAtoms : atoms[k] = Undef /\ ~state[k].has
    /\ accessStack = {} /\ sStack = {}

C5_Witness ==
  /\ last.op = "get" /\ last.atom = "Y" /\ last.err = ErrCircular
  /\ api = "store"

\* C6: no subscriber runs while a batch callback is running; when the
\* outermost batch is done, every subscriber of every atom that a set changed
\* inside it has run exactly once and was shown the atom's final value.
C6_BatchCoalescing ==
  /\ InBatch => NoCalls
  /\ OuterBatchDone =>
       /\ \A t \in Tokens : early[t] = 0
       /\ \A a \in changed : \A t \in SubsOf(a) :
            calls[t] = 1 /\ seen[t] = GetNow(a)

C6_Witness ==
  /\ OuterBatchDone /\ changed = {"A"}
  /\ Cardinality(SubsOf("A")) = 2
  /\ \A t \in SubsOf("A") : calls[t] = 1 /\ seen[t] = GetNow("A")
  /\ GetNow("A") # 0

\* C7: inside a batch every set takes effect on the stored value at once: a
\* get issued after the set, in the same batch, returns the value set.
C7_BatchDefersOnlyNotification ==
  (InBatch /\ SetReturned) => GetNow(last.atom) = last.arg

\* C8: the completion of a batch started inside another batch delivers no
\* notification; the sets of inner and outer batches are notified when the
\* outermost batch completes, once per changed atom.
C8_NestedBatches ==
  /\ (last.op = "batchEnd" /\ ~last.outer) => (InBatch /\ NoCalls)
  /\ (OuterBatchDone /\ nested) =>
       \A a \in changed : \A t \in SubsOf(a) : calls[t] = 1

C8_Witness ==
  /\ OuterBatchDone /\ nested /\ changed = {"A"}
  /\ SubsOf("A") # {}
  /\ \A t \in SubsOf("A") : calls[t] = 1

\* C9: when the batch callback throws partway through, the atoms changed so
\* far are still notified once each, the values set stay in place, and batch
\* mode is left.
C9_BatchThrows ==
  (OuterBatchDone /\ last.err = ErrUser) =>
    /\ \A a \in changed : \A t \in SubsOf(a) : calls[t] = 1
    /\ \A a \in Keys : setTo[a] # Undef => GetNow(a) = setTo[a]
    /\ ~InBatch /\ ~isInBatch /\ ~hBatch
    /\ batchUpdates = <<>> /\ pending = <<>>

C9_Witness ==
  /\ OuterBatchDone /\ last.err = ErrUser /\ changed = {"A"}
  /\ SubsOf("A") # {}
  /\ \A t \in SubsOf("A") : calls[t] = 1
  /\ GetNow("A") = setTo["A"]

\* C10: set on an atom created without a write recipe fails with
\* InvalidAtomUpdateError and leaves its cached value unchanged.
C10_ReadOnlyEnforcement ==
  (last.op \in {"set", "storeSet"} /\ last.atom \in DerivedAtoms) =>
    /\ last.err = ErrInvalidUpdate
    /\ GetNow(last.atom) = last.pre

\* C11: when the write recipe of a writable atom throws an error e during
\* set, the set fails with InvalidAtomUpdateError and the message of that
\* error ends with the message of e.
C11_WriteErrorWrapped ==
  (last.op = "set" /\ last.atom \in ThrowingWriteAtoms) =>
    /\ last.err = ErrInvalidUpdate
    /\ last.msg # <<>>
    /\ last.msg[Len(last.msg)] = MsgInvalid

C11_Witness ==
  /\ last.op = "set" /\ last.atom = "T" /\ api = "store"
  /\ last.err = ErrInvalidUpdate
  /\ last.msg = <<MsgFailedToUpdate, MsgInvalid>>

\* the value cached for an atom by the store the program uses
Cached(a) == IF api = "store" THEN state[a].value ELSE atoms[a]

\* C12: whenever a set fails, the cached value of its target atom is the
\* same as before the call.
C12_NoPartialMutation ==
  (last.op = "set" /\ last.err # NoErr) => Cached(last.atom) = last.pre

\* the value of A that the singleton holds, and what the read recipes of the
\* branching program produce from it (Undef where the recipe throws)
FreshValue(a) ==
  CASE a = "L" -> 0
    [] a = "A" -> atoms["A"]
    [] OTHER -> IF atoms["A"] = 2 THEN Undef ELSE atoms["A"]

\* C13: the get of an atom that has no cached entry (it was dropped when its
\* last subscriber unsubscribed, or it was never cached) does not fail and
\* returns the value a fresh computation produces, 0 for the source atom L,
\* which is never set, unless the read recipe itself throws.
C13_Rematerialization ==
  (last.op = "get" /\ last.pre = Undef /\ FreshValue(last.atom) # Undef) =>
    /\ last.err = NoErr
    /\ last.val = FreshValue(last.atom)

\* C14: after any computation of a derived atom, its recorded dependency set
\* is exactly the set of atoms that this computation read; D, which reads E
\* only while A is not 0, has no edge to E once A is 0 again.
C14_NoStaleEdges ==
  \A x \in {"D", "E"} : dependencies[x] = reads[x]

\* C15: after any call has returned or thrown, no atom is left in an
\* in-flight tracking set: the access stacks of the stores and the visited
\* sets of the derived atoms are empty.
C15_InFlightRestored ==
  /\ accessStack = {}
  /\ sStack = {}
  /\ \A k \in Keys : visited[k] = {}

\* the descriptors that are being computed when the innermost get of a
\* get(k) is called: k and the descriptors after it, up to the first cached
\* one or up to the last of the chain
InFlight(k) ==
  LET cachedAt == {j \in k..ChainLen : Cached(j) # Undef}
  IN IF cachedAt = {} THEN k..(ChainLen - 1)
     ELSE k..((CHOOSE j \in cachedAt : \A i \in cachedAt : j <= i) - 1)

\* C16: a get fails with CircularDependencyError when it leads to a get that
\* is called while maxCircularDepth descriptors are already being computed,
\* although the chain has no cycle; a get that never has that many in
\* computation succeeds and returns the value of the chain.
C16_MaxDepth ==
  [][last'.op = "get" =>
       IF Cardinality(InFlight(last'.atom)) >= maxCircularDepth
       THEN last'.err = ErrCircular /\ last'.val = Undef
       ELSE /\ last'.err = NoErr
            /\ last'.val = ChainLen - last'.atom]_vars

C16_Witness ==
  /\ last.op = "get" /\ last.err = ErrCircular
  /\ Cardinality(InFlight(last.atom)) = maxCircularDepth
  /\ api = "store"
  /\ Cached(ChainLen) = 0

\* the keys of the live cache entries
Live == {k \in DOMAIN cache : cache[k].has}

\* C17: the number of live cache entries never exceeds maxCacheSize, whatever
\* stores, lookups, invalidations and reclamations were made.
C17_CacheBound ==
  /\ Cardinality(Live) <= maxCacheSize
  /\ Len(cacheOrder) = Cardinality(Live)

C17_Witness ==
  /\ last.op = "cacheSet" /\ last.pre = maxCacheSize
  /\ last.atom = maxCacheSize + 1
  /\ Cardinality(Live) = maxCacheSize
  /\ cache[last.atom].has

\* C18: a store made with the cache at capacity evicts exactly one entry, one
\* whose last access is the oldest of all live entries, and a lookup counts
\* as an access: it sets the last access of the entry it finds to the
\* current time, so an entry looked up later than another is not evicted
\* before it.
C18_LruEviction ==
  [][/\ (last'.op = "cacheSet" /\ Len(cacheOrder) >= maxCacheSize) =>
          \E e \in (Live \ Live') \cup ({last'.atom} \cap Live) :
            /\ \A j \in Live : cache[e].lastComputed <= cache[j].lastComputed
            /\ Live' = (Live \ {e}) \cup {last'.atom}
     /\ (last'.op = "cacheGet" /\ cache[last'.atom].has) =>
          /\ cache'[last'.atom].lastComputed = now
          /\ Live' = Live]_vars

C18_Witness ==
  /\ last.op = "cacheSet" /\ last.pre = maxCacheSize
  /\ last.atom = maxCacheSize + 1
  /\ cache[1].has /\ cache[1].lastComputed > 1
  /\ ~cache[2].has
  /\ cache[3].has

\* C19: an unsubscribe removes exactly one callback from its atom and leaves
\* every other subscription in place; a callback that is not subscribed is
\* invoked by no set and by no batch flush, and the callbacks that are still
\* subscribed to an atom are each invoked once by a set that changes it.
C19_Unsubscribe ==
  [][/\ last'.op = "unsubscribe" =>
          \A a \in Keys :
            LET before == SubsOf(a)
                after == SubsOf(a)'
            IN IF last'.atom = a
               THEN \E t \in before : after = before \ {t}
               ELSE after = before
     /\ \A t \in Tokens : calls'[t] > 0 => t \in SubsOf(t[1])'
     /\ (SetReturned' /\ ~InBatch' /\ last'.arg # last'.pre) =>
          \A a \in Keys : last'.atom = a =>
            \A t \in SubsOf(a)' : calls'[t] = 1]_vars

C19_Witness ==
  /\ last.op = "unsubscribe" /\ last.atom = "A"
  /\ api = "store"
  /\ SubsOf("A") = {<<"A", "s2">>}
  /\ state["A"].subscribers = <<"s2">>

\* an interceptor that does not call next ran during the last call
BlockRan == \E i \in 1..Len(ran) : middleware[ran[i]] = "block"

\* C20: when an onWrite interceptor that returns without calling next ran
\* during a set, the cached value of the atom is the one from before the
\* call, no subscriber was invoked, and no interceptor ran after it.
C20_WriteSuppressed ==
  (last.op \in {"set", "storeSet"} /\ BlockRan) =>
    /\ Cached(last.atom) = last.pre
    /\ NoCalls
    /\ \A i \in 1..(Len(ran) - 1) : middleware[ran[i]] # "block"

\* every interceptor of the list calls next, and there are several
AllPass == Len(middleware) >= 2 /\ \A i \in 1..Len(middleware) : middleware[i] = "pass"

\* C21: when several onWrite interceptors are registered and each of them
\* calls next, a set invokes all of them in registration order and applies
\* the write: the set succeeds and the atom holds the value set.
C21_NestedInterceptors ==
  (last.op \in {"set", "storeSet"} /\ AllPass) =>
    /\ ran = [i \in 1..Len(middleware) |-> i]
    /\ last.err = NoErr
    /\ Cached(last.atom) = last.arg

\* C22: the value a get returns, whether it computed the atom or found it
\* cached, is the stored value with every registered onRead interceptor
\* applied to it in registration order.
C22_ReadInterceptorsApplied ==
  (last.op = "get" /\ last.err = NoErr) =>
    last.val = ReadThrough(last.atom, Cached(last.atom), middleware, 1)

\* the functional update prev => prev + 1 (within the model's values)
Increment == [fn |-> TRUE, v |-> 0]

\* C23: a functional update is resolved against the atom's current value:
\* after a set with the function f has returned, get returns f(p), where p
\* is the value get returned immediately before the set.
C23_FunctionalUpdate ==
  [][\A a \in SourceAtoms :
       (SetReturned' /\ last'.atom = a /\ last'.fn) =>
         GetNow(a)' = Resolve(Increment, GetNow(a))]_vars

\* C24: for the writable derived atom W, whose read is get(A) * 2 and whose
\* write sets A to half the update: after W.set(u) has returned, get(A)
\* returns u / 2 and get(W) returns (u / 2) * 2.
C24_WritableDerived ==
  (SetReturned /\ last.atom = "W" /\ api = "singleton") =>
    /\ GetNow("A") = last.arg \div 2
    /\ GetNow("W") = (last.arg \div 2) * 2

C24_Witness ==
  /\ SetReturned /\ last.atom = "W" /\ api = "singleton"
  /\ last.arg = 2 /\ last.pre = 0
  /\ GetNow("A") = 1
  /\ GetNow("W") = 2

\* C25: after dispatch(action) the value of the reducer atom is the
\* reducer's result for the value it had before and the action (so that a
\* sequence of dispatches folds the reducer over the actions).
C25_ReducerFold ==
  [][last'.op = "dispatch" =>
       /\ last'.err = NoErr
       /\ GetNow("R")' = reducer(GetNow("R"), last'.arg)]_vars

\* a second Store of part_005, which the program constructed (createStore())
\* and has not called yet: its own fields are as its constructor left them
OtherStore(st) ==
  [st EXCEPT !.state = [k \in Keys |-> NoEntry], !.sStack = {}, !.isInBatch = FALSE,
             !.batchUpdates = <<>>, !.frames = <<>>, !.mw = <<>>]

\* the value that second Store returns from get
OtherGet(a) == get(a, OtherStore(Cur), 1).val

\* C26: no call on one Store instance (get, set, subscribe, unsubscribe,
\* batch) changes the value that another Store instance returns from get.
C26_StoresIndependent ==
  [][api = "store" => \A a \in StoreAtoms : OtherGet(a)' = OtherGet(a)]_vars

\* C27: a set on a writable atom that has no cache entry (it was never read
\* through the store, or its entry was dropped) does not fail, and a get
\* after it returns the value set.
C27_SetMaterializes ==
  (last.op = "set" /\ last.atom \in SourceAtoms /\ last.pre = Undef) =>
    /\ last.err = NoErr
    /\ ~last.fn => GetNow(last.atom) = last.arg

\* the last call was a set whose update the validating interceptor, the first
\* one with an onWrite, rejected: it threw before calling next.  The Store of
\* part_005 hands it the update as given, the Store of part_004 the resolved
\* value.
RejectThrew ==
  /\ last.op \in {"set", "storeSet"}
  /\ FirstOnWrite(middleware) # 0
  /\ middleware[FirstOnWrite(middleware)] = "reject"
  /\ Rejected(last.arg)
  /\ api = "store" => ~last.fn

\* C28: when an onWrite interceptor throws before calling next, the set
\* fails with InvalidAtomUpdateError whose message ends with the message of
\* the error thrown, the cached value of the atom is unchanged and no
\* subscriber is invoked.
C28_InterceptorThrows ==
  RejectThrew =>
    /\ last.err = ErrInvalidUpdate
    /\ last.msg # <<>>
    /\ last.msg[Len(last.msg)] = MsgRejected
    /\ Cached(last.atom) = last.pre
    /\ NoCalls

\* C29: when a set gives A the value for which the read recipe of E throws,
\* so that the recomputation of E in response to the set throws, the error
\* reaches the caller of the set or an onError hook.
C29_NoSilentDrop ==
  (last.op = "set" /\ last.atom = "A" /\ last.arg = 2 /\ atoms["A"] = 2) =>
    (last.err # NoErr \/ hooked # <<>>)

\* C30: when a get fails with CircularDependencyError or with the error of
\* a read recipe, every registered onError hook was invoked with that error
\* during the call.
C30_ErrorHooksFirst ==
  (last.op = "get" /\ last.err \in {ErrCircular, ErrUser}) =>
    \A i \in 1..Len(middleware) :
      HasOnError(middleware[i]) =>
        \E j \in 1..Len(hooked) : hooked[j] = [hook |-> i, err |-> last.err]

\* C31: an onError hook that throws does not change what the caller
\* observes: a failing get or set fails with its own error, never with the
\* error the hook threw.
C31_HookThrowIsolated ==
  (last.op \in {"get", "set", "storeSet"} /\ last.err # NoErr) => last.err # ErrHook

\* whether the store holds a value for the atom
HasEntry(a) == IF api = "store" THEN state[a].has ELSE atoms[a] # Undef
\* whether the last access of the atom's entry is older than the age
\* threshold; the singleton keeps no access time, and no entry of it was
\* accessed earlier than the start of the program, at time 1
Stale(a) ==
  IF api = "store" THEN now - state[a].lastAccessed > CleanupAge
  ELSE now - 1 > CleanupAge

\* C32: an unsubscribe drops the cached value of the atom only when the
\* callback it removes was the last subscriber and the entry was not
\* accessed within the age threshold; otherwise the value is retained.
C32_UnsubscribeRetains ==
  [][\A a \in DroppableAtoms :
       (last'.op = "unsubscribe" /\ last'.atom = a /\ HasEntry(a) /\ ~HasEntry(a)')
         => (Cardinality(SubsOf(a)) = 1 /\ Stale(a))]_vars

\* how many times invalidate ran for the key during the last call
Visits(k) == Len(SelectSeq(invalidated, LAMBDA x : x = k))

\* the actual dependencies of the live entries are acyclic
LiveAcyclic ==
  \A j, k \in InvKeys :
    ~(cache[j].has /\ cache[k].has /\ k \in cache[j].dependencies
        /\ j \in cache[k].dependencies)

\* C33: invalidate(atom) terminates for every reverse dependency index that
\* stores, invalidations and reclamations can produce, an index with a cycle
\* included, and it visits each atom at most once.
C33_InvalidateTerminates ==
  last.op = "invalidate" =>
    /\ last.err = NoErr
    /\ \A k \in InvKeys : Visits(k) <= 1

\* C34: a reclamation sweep removes every cache entry whose last access is
\* older than the max age and no entry accessed within the max age, and
\* after it no removed atom is in a dependent set of the reverse index.
C34_Reclamation ==
  [][last'.op = "runGC" =>
       \A k \in InvKeys :
         /\ cache'[k].has <=> (cache[k].has /\ now - cache[k].lastComputed <= maxCacheAge)
         /\ cache'[k].has => cache'[k] = cache[k]
         /\ (cache[k].has /\ ~cache'[k].has) =>
              \A j \in InvKeys : k \notin dependencyGraph'[j]]_vars

\* a sweep of a cache that held all three atoms removed atoms 2 and 3,
\* which atom 1 and atom 2 had as dependents, and kept atom 1
C34_Witness ==
  /\ last.op = "runGC" /\ last.pre = 3
  /\ cache[1].has /\ ~cache[2].has /\ ~cache[3].has

\* C40: when the live cache entry of an atom records A as a dependency,
\* invalidate(A) removes that entry, also when A's own entry was evicted or
\* swept before.  An invalidate changes no entry it leaves in the cache, so after it no
\* live entry records A as a dependency.
C40_CascadeAfterSweep ==
  (last.op = "invalidate" /\ last.err = NoErr) =>
    \A b \in InvKeys : ~(cache[b].has /\ last.atom \in cache[b].dependencies)

\* C35: the output of an onRead interceptor is never stored: after a set
\* that returned, with no onWrite interceptor in the way, the value stored
\* for the atom is the value the caller set, for a functional update the
\* function applied to the value that was stored before.
C35_ReadTransformNotCached ==
  (SetReturned /\ last.op = "set" /\ FirstOnWrite(middleware) = 0) =>
    Cached(last.atom) = last.arg

\* what the read recipe of J returns when B and M are computed from A
JOverA(v) == Compute("J", <<Compute("B", <<v>>), Compute("M", <<v>>)>>)

\* C36: on the diamond A -> B, A -> M, (B, M) -> J, one set of A invokes
\* each subscriber of J at most once, and whenever a subscriber of J runs,
\* the value stored for J is the one J's recipe gives for the new values
\* of B and M, never one that mixes the new B with the old M.
C36_GlitchFree ==
  (last.op = "set" /\ last.err = NoErr) =>
    \A t \in SubsOf("J") :
      /\ calls[t] <= 1
      /\ \A i \in 1..Len(shown[t]) : shown[t][i] = JOverA(atoms["A"])

\* C37: a derived atom follows the dependencies of its latest computation:
\* when the latest run of K's read recipe read N, which it did not read
\* when K was created, then after a set of N the get of K returns the
\* value recomputed from the new value of N, which is that value.
C37_FollowsLatestDeps ==
  (last.op = "set" /\ last.atom = "N" /\ last.err = NoErr /\ "N" \in reads["K"]) =>
    GetNow("K") = atoms["N"]

\* the value the store in use holds for the atom
StoredValue(a) ==
  CASE api = "store" -> state[a].value
    [] api = "hooks" -> hAtoms[a]
    [] OTHER -> atoms[a]

\* C38: when inside one batch an atom is set to other values and at last
\* back to the value it had when the batch began, the flush of the batch
\* invokes none of its subscribers.
C38_BackToStart ==
  [][(last'.op = "batchEnd" /\ last'.outer) =>
       \A a \in StoreSetAtoms :
         (a \in changed /\ began[a] # Undef /\ StoredValue(a)' = began[a]) =>
           \A t \in SubsOf(a) : calls'[t] = calls[t]]_vars

\* C39: when a subscriber invoked by the flush of a batch itself calls
\* batch, every subscriber of every other atom that a set changed inside
\* the batch is still invoked exactly once by the flush.
C39_ReentrantFlush ==
  (OuterBatchDone /\ calls[<<"A", "rb">>] > 0) =>
    \A a \in changed \ {"A"} : \A t \in SubsOf(a) : calls[t] = 1

====
